---- MODULE Spec2Model ----
(***************************************************************************)
(* pyftrace: the trace engine (class Trace), its ignore filter (class      *)
(* _Ignore) and the per-pid registry self.mtd, as a state machine.         *)
(*                                                                         *)
(* A Python str is a tuple of one-character strings, so that startswith,   *)
(* basename and splitext are computed character by character.  A Python    *)
(* dict is a function whose DOMAIN is the set of its keys.  Every process  *)
(* has its own memory: os.fork() copies the whole Trace object.            *)
(***************************************************************************)
EXTENDS Integers, Sequences, FiniteSets, TLC

VARIABLES
    _mods,       \* _Ignore._mods: the set of ignored module names
    _dirs,       \* _Ignore._dirs: the list of normalised ignored directories
    opt_line,    \* Trace.opt_line
    opt_retval,  \* Trace.opt_retval
    procs,       \* procs[p]: "unborn", "running" or "exited"
    ppid,        \* ppid[p]: what os.getppid() returns in process p
    mtd,         \* mtd[p]: Trace.mtd in the memory of process p
    _ignore,     \* _ignore[p]: _Ignore._ignore in the memory of process p
    threads,     \* threads[p][t]: the call stack of thread t and where it stands
    out,         \* the lines printed so far (stdout is shared across fork)
    clock,       \* time.time()
    last         \* the event handled last and what its handler returned

vars == <<_mods, _dirs, opt_line, opt_retval, procs, ppid, mtd, _ignore,
          threads, out, clock, last>>

----------------------------------------------------------------------------
(* Python strings *)

None == <<"None">>
OsSep == <<"/">>
ExtSep == <<".">>

S_string == <<"<","s","t","r","i","n","g",">">>
S_cmp == <<"c","m","p">>
S_cmpcache == <<"c","m","p","c","a","c","h","e">>
S_cmp_util == <<"c","m","p",".","u","t","i","l">>
S_local == <<"l","o","c","a","l">>
S_usr_local == <<"/","u","s","r","/","l","o","c","a","l">>
S_usr_local_slash == <<"/","u","s","r","/","l","o","c","a","l","/">>
S_usr_dot_local == <<"/","u","s","r","/",".","/","l","o","c","a","l">>
S_usr_local_py == <<"/","u","s","r","/","l","o","c","a","l",".","p","y">>
S_usr_local_local_py ==
    <<"/","u","s","r","/","l","o","c","a","l","/","l","o","c","a","l",".","p","y">>
S_usr_local_cmpcache_py ==
    <<"/","u","s","r","/","l","o","c","a","l","/","c","m","p","c","a","c","h","e",".","p","y">>
S_cmpcache_py == <<"c","m","p","c","a","c","h","e",".","p","y">>
S_cmp_py == <<"c","m","p",".","p","y">>
S_p_fork_py == <<"p","-","f","o","r","k",".","p","y">>
S_pyftrace_py == <<"p","y","f","t","r","a","c","e",".","p","y">>
S_usr_local_os_py == <<"/","u","s","r","/","l","o","c","a","l","/","o","s",".","p","y">>

\* str.startswith
StartsWith(s, prefix) ==
    /\ Len(prefix) <= Len(s)
    /\ SubSeq(s, 1, Len(prefix)) = prefix

\* str.rfind, 1-based; 0 when ch does not occur
RFind(s, ch) ==
    LET I == {i \in 1..Len(s) : s[i] = ch}
    IN  IF I = {} THEN 0 ELSE CHOOSE i \in I : \A j \in I : j <= i

\* str.find, 1-based; 0 when ch does not occur
Find(s, ch) ==
    LET I == {i \in 1..Len(s) : s[i] = ch}
    IN  IF I = {} THEN 0 ELSE CHOOSE i \in I : \A j \in I : i <= j

\* os.path.basename
basename(path) == SubSeq(path, RFind(path, "/") + 1, Len(path))

\* os.path.splitext(base)[0]: cut at the last dot unless only dots precede it
splitext_root(base) ==
    LET dot == RFind(base, ".")
    IN  IF dot > 0 /\ \E i \in 1..(dot - 1) : base[i] # "."
        THEN SubSeq(base, 1, dot - 1)
        ELSE base

_modname(path) == splitext_root(basename(path))

\* str.split('/')
RECURSIVE SplitSep(_)
SplitSep(s) ==
    LET i == Find(s, "/")
    IN  IF i = 0 THEN <<s>>
        ELSE <<SubSeq(s, 1, i - 1)>> \o SplitSep(SubSeq(s, i + 1, Len(s)))

\* '/'.join(comps)
RECURSIVE JoinSep(_)
JoinSep(comps) ==
    IF comps = <<>> THEN <<>>
    ELSE IF Len(comps) = 1 THEN comps[1]
    ELSE comps[1] \o OsSep \o JoinSep(Tail(comps))

\* the loop of posixpath.normpath over the components
RECURSIVE NormComps(_, _, _)
NormComps(comps, new_comps, initial_slashes) ==
    IF comps = <<>> THEN new_comps
    ELSE LET comp == comps[1]
             n == Len(new_comps)
         IN  IF comp = <<>> \/ comp = <<".">>
             THEN NormComps(Tail(comps), new_comps, initial_slashes)
             ELSE IF \/ comp # <<".", ".">>
                     \/ (initial_slashes = 0 /\ n = 0)
                     \/ (n > 0 /\ new_comps[n] = <<".", ".">>)
             THEN NormComps(Tail(comps), Append(new_comps, comp), initial_slashes)
             ELSE IF n > 0
             THEN NormComps(Tail(comps), SubSeq(new_comps, 1, n - 1), initial_slashes)
             ELSE NormComps(Tail(comps), new_comps, initial_slashes)

\* os.path.normpath
normpath(path) ==
    IF path = <<>> THEN <<".">>
    ELSE LET initial_slashes ==
                 IF ~StartsWith(path, <<"/">>) THEN 0
                 ELSE IF StartsWith(path, <<"/", "/">>)
                         /\ ~StartsWith(path, <<"/", "/", "/">>) THEN 2
                 ELSE 1
             joined == JoinSep(NormComps(SplitSep(path), <<>>, initial_slashes))
             p == IF initial_slashes = 2 THEN <<"/", "/">> \o joined
                  ELSE IF initial_slashes = 1 THEN <<"/">> \o joined
                  ELSE joined
         IN  IF p = <<>> THEN <<".">> ELSE p

----------------------------------------------------------------------------
(* class _Ignore *)

\* _Ignore.__init__: the cache starts with the pseudo-module '<string>'
Ignore_init_mods(modules) == modules
Ignore_init_dirs(ds) == [i \in 1..Len(ds) |-> normpath(ds[i])]
Ignore_init_cache == (S_string :> 1)

\* _Ignore.names with a path prefix test that forgets the separator
names_NoSep(cache, filename, modulename) ==
    IF modulename \in DOMAIN cache
    THEN [ret |-> cache[modulename], cache |-> cache]
    ELSE LET ret ==
                 IF modulename \in _mods THEN 1
                 ELSE IF \E mod \in _mods : StartsWith(modulename, mod) THEN 1
                 ELSE IF filename = None THEN 1
                 ELSE IF \E i \in 1..Len(_dirs) : StartsWith(filename, _dirs[i]) THEN 1
                 ELSE 0
         IN  [ret |-> ret, cache |-> (modulename :> ret) @@ cache]

\* _Ignore.names that does not ignore a module without a file
names_NoBuiltin(cache, filename, modulename) ==
    IF modulename \in DOMAIN cache
    THEN [ret |-> cache[modulename], cache |-> cache]
    ELSE LET ret ==
                 IF modulename \in _mods THEN 1
                 ELSE IF \E mod \in _mods : StartsWith(modulename, mod \o ExtSep) THEN 1
                 ELSE IF \E i \in 1..Len(_dirs) : StartsWith(filename, _dirs[i] \o OsSep) THEN 1
                 ELSE 0
         IN  [ret |-> ret, cache |-> (modulename :> ret) @@ cache]

\* _Ignore.names without the memo lookup
names_NoMemo(cache, filename, modulename) ==
    LET ret ==
            IF modulename = S_string THEN 1
            ELSE IF modulename \in _mods THEN 1
            ELSE IF \E mod \in _mods : StartsWith(modulename, mod \o ExtSep) THEN 1
            ELSE IF filename = None THEN 1
            ELSE IF \E i \in 1..Len(_dirs) : StartsWith(filename, _dirs[i] \o OsSep) THEN 1
            ELSE 0
    IN  [ret |-> ret, cache |-> (modulename :> ret) @@ cache]

\* _Ignore.names(filename, modulename): the decision and the cache afterwards
names(cache, filename, modulename) ==
    IF modulename \in DOMAIN cache
    THEN [ret |-> cache[modulename], cache |-> cache]
    ELSE LET ret ==
                 IF modulename \in _mods THEN 1
                 ELSE IF \E mod \in _mods : StartsWith(modulename, mod \o ExtSep) THEN 1
                 ELSE IF filename = None THEN 1
                 ELSE IF \E i \in 1..Len(_dirs) : StartsWith(filename, _dirs[i] \o OsSep) THEN 1
                 ELSE 0
         IN  [ret |-> ret, cache |-> (modulename :> ret) @@ cache]

----------------------------------------------------------------------------
(* Bounds *)

MaxForkClock == 3    \* events delivered in a run of processes that fork
MaxThreadClock == 3  \* events delivered in a run of the threads of one process
MaxSeqClock == 6     \* events delivered in a run of one thread of one process
MaxDepth == 3        \* calls one thread has open at a time
MaxRecursion == 3    \* frames get_thread_data may nest before RecursionError
MaxSlack == 20       \* durations tried on either side of a bucket boundary

----------------------------------------------------------------------------
(* The host: processes, threads, the traced program *)

RootPid == 100000
InitPid == 1
Pids == {RootPid, RootPid + 1}
PidMod == 100000

MainThread == "MainThread"
Tids == {"MainThread", "Thread-1"}

\* Python values an exit event carries in arg: None is <<>>, the int v is <<v>>
PyNone == <<>>
PyInt(v) == <<v>>
\* bool(arg) of None and of an int; bool(filename) of None and of a str
TruthyArg(arg) == arg # PyNone /\ arg # PyInt(0)
TruthyStr(s) == s # None /\ s # <<>>

\* p-fork.py: c() returns os.getpid() % 100000, b() returns c() + 1
c(pid) == pid % PidMod
b(pid) == c(pid) + 1

\* the functions the traced program calls: frame.f_globals['__file__'] (None
\* when the globals have none) and frame.f_code.co_name
Functions ==
    { [file |-> S_p_fork_py, name |-> "b"],
      [file |-> S_p_fork_py, name |-> "c"],
      [file |-> S_usr_local_os_py, name |-> "f"],
      [file |-> None, name |-> "g"] }

Fn_unsettrace == [file |-> S_pyftrace_py, name |-> "_unsettrace"]

\* the value a function returns, the arg of its 'return' event
RetOf(fn, pid) ==
    IF fn.name = "c" THEN PyInt(c(pid))
    ELSE IF fn.name = "b" THEN PyInt(b(pid))
    ELSE PyNone

----------------------------------------------------------------------------
(* Python lists and output lines *)

\* the 1-based position list[i] denotes, 0 when it raises IndexError
PyIdx(n, i) ==
    IF 0 <= i /\ i < n THEN i + 1
    ELSE IF i < 0 /\ -i <= n THEN n + i + 1
    ELSE 0

DelAt(s, k) == SubSeq(s, 1, k - 1) \o SubSeq(s, k + 1, Len(s))

\* len(" " * indent)
Spaces(indent) == IF indent < 0 THEN 0 ELSE indent

Header == [kind |-> "header", pid |-> 0, indent |-> 0, name |-> "",
           time |-> 0, retval_fmt |-> <<>>, call |-> 0]

\* an entry line that repeats the header instead
EntryLine_Header(pid, indent, fn, id) ==
    [kind |-> "header", pid |-> pid, indent |-> Spaces(indent), name |-> fn.name,
     time |-> 0, retval_fmt |-> <<>>, call |-> id]

EntryLine(pid, indent, fn, id) ==
    [kind |-> "entry", pid |-> pid, indent |-> Spaces(indent), name |-> fn.name,
     time |-> 0, retval_fmt |-> <<>>, call |-> id]

LineLine(pid, indent, fn, elapsed, id) ==
    [kind |-> "line", pid |-> pid, indent |-> Spaces(indent),
     name |-> fn.name, time |-> elapsed, retval_fmt |-> <<>>, call |-> id]

ExitLine(pid, indent, fn, duration, retval_fmt, id) ==
    [kind |-> "exit", pid |-> pid, indent |-> Spaces(indent), name |-> fn.name,
     time |-> duration, retval_fmt |-> retval_fmt, call |-> id]

\* bname[-4:] != '.pyc'
IsPyc(bname) ==
    Len(bname) >= 4 /\ SubSeq(bname, Len(bname) - 3, Len(bname)) = <<".", "p", "y", "c">>

----------------------------------------------------------------------------
(* class Trace: the registry *)

\* a frame of rstacks: the dict {} or {'start_time': t}
EmptyFrame == <<>>
HasStart(frame) == "start_time" \in DOMAIN frame
\* a timestamp write that stores the engine's epoch instead of the time now
SetStart_Epoch(frame, now) == [start_time |-> 0]
SetStart(frame, now) == [start_time |-> now]

\* an entry of self.mtd: the dict {}, {'depth': d} or {'depth': d, 'rstacks': r}
EmptyEntry == <<>>
Complete(e) == "depth" \in DOMAIN e /\ "rstacks" \in DOMAIN e

\* Trace.__init__: self.mtd = {pid: {'depth': 0, 'rstacks': [{}]}}
Trace_init_mtd(pid) == (pid :> [depth |-> 0, rstacks |-> <<EmptyFrame>>])

\* Trace.get_thread_data that starts a new context at depth 0, parent's stack kept
get_thread_data_Fresh(m, pid, pp, fuel) ==
    IF pid \in DOMAIN m /\ Complete(m[pid]) THEN [mtd |-> m, ok |-> TRUE]
    ELSE IF pp \notin DOMAIN m \/ fuel = 0 THEN [mtd |-> m, ok |-> FALSE]
    ELSE [mtd |-> (pid :> [depth |-> 0, rstacks |-> m[pp].rstacks]) @@ m, ok |-> TRUE]

\* Trace.get_thread_data(pid) in a process whose os.getppid() is pp: the
\* registry afterwards, and whether the call returned (ok) or exhausted the
\* interpreter's stack (RecursionError); the entry returned is mtd[pid]
RECURSIVE get_thread_data(_, _, _, _)
get_thread_data(m, pid, pp, fuel) ==
    LET m1 == IF pid \notin DOMAIN m THEN (pid :> EmptyEntry) @@ m ELSE m
        r1 == IF "depth" \notin DOMAIN m1[pid]
              THEN IF fuel = 0 THEN [mtd |-> m1, ok |-> FALSE]
                   ELSE LET parent == get_thread_data(m1, pp, pp, fuel - 1)
                        IN  IF ~parent.ok THEN parent
                            ELSE [mtd |-> [parent.mtd EXCEPT ![pid] =
                                      ("depth" :> parent.mtd[pp].depth) @@ @],
                                  ok |-> TRUE]
              ELSE [mtd |-> m1, ok |-> TRUE]
    IN  IF ~r1.ok THEN r1
        ELSE IF "rstacks" \notin DOMAIN r1.mtd[pid]
        THEN IF fuel = 0 THEN [mtd |-> r1.mtd, ok |-> FALSE]
             ELSE LET parent == get_thread_data(r1.mtd, pp, pp, fuel - 1)
                  IN  IF ~parent.ok THEN parent
                      ELSE [mtd |-> [parent.mtd EXCEPT ![pid] =
                                ("rstacks" :> parent.mtd[pp].rstacks) @@ @],
                            ok |-> TRUE]
        ELSE r1

\* Trace.get_ret_stack(mtd, depth): the position of rstacks[depth], 0 on IndexError
get_ret_stack(e, depth) == PyIdx(Len(e.rstacks), depth)

----------------------------------------------------------------------------
(* class Trace: the handlers.  Each returns the registry and the ignore     *)
(* cache afterwards, the lines printed, what the handler returned (ret) and *)
(* the exception it raised ("" when none).                                  *)

Result(m, cache, lines, ret, raised) ==
    [mtd |-> m, cache |-> cache, lines |-> lines, ret |-> ret, raised |-> raised]

\* uftrace_entry lines 213-234: up to and including the print of the entry line
entry_213_234(m, cache, pid, pp, fn, now, id) ==
    LET g == get_thread_data(m, pid, pp, MaxRecursion)
    IN  IF ~g.ok THEN Result(g.mtd, cache, <<>>, "None", "RecursionError")
        ELSE
        LET e == g.mtd[pid]
            k == get_ret_stack(e, e.depth)
        IN  IF k = 0 THEN Result(g.mtd, cache, <<>>, "None", "IndexError")
            ELSE IF ~TruthyStr(fn.file) THEN Result(g.mtd, cache, <<>>, "None", "")
            ELSE IF fn.name = "_unsettrace" THEN Result(g.mtd, cache, <<>>, "None", "")
            ELSE
            LET n == names(cache, fn.file, _modname(fn.file))
            IN  IF n.ret # 0 THEN Result(g.mtd, n.cache, <<>>, "None", "")
                ELSE Result([g.mtd EXCEPT ![pid].rstacks[k] = SetStart(@, now)],
                            n.cache,
                            <<EntryLine(pid, e.depth * 2, fn, id)>>,
                            "returntrace", "")

\* uftrace_entry line 235: mtd['depth'] += 1
entry_235(m, pid) == [m EXCEPT ![pid].depth = @ + 1]

\* uftrace_entry line 236 appending a copy of the frame just stamped
entry_236_Copy(m, pid) ==
    [m EXCEPT ![pid].rstacks = Append(@, @[Len(@)])]

\* uftrace_entry line 236: mtd['rstacks'].append({})
entry_236(m, pid) == [m EXCEPT ![pid].rstacks = Append(@, EmptyFrame)]

\* uftrace_entry without the push
uftrace_entry_NoPush(m, cache, pid, pp, fn, now, id) ==
    LET r == entry_213_234(m, cache, pid, pp, fn, now, id)
    IN  IF r.ret = "returntrace"
        THEN [r EXCEPT !.mtd = entry_235(r.mtd, pid)]
        ELSE r

\* Trace.uftrace_entry(frame, 'call', arg), run without interruption
uftrace_entry(m, cache, pid, pp, fn, now, id) ==
    LET r == entry_213_234(m, cache, pid, pp, fn, now, id)
    IN  IF r.ret = "returntrace"
        THEN [r EXCEPT !.mtd = entry_236(entry_235(r.mtd, pid), pid)]
        ELSE r

\* uftrace_exit lines 270-282: up to and including mtd['depth'] -= 1; ret is
\* "popping" when the event is not ignored and the pop has begun
exit_270_282(m, cache, pid, pp, fn) ==
    LET g == get_thread_data(m, pid, pp, MaxRecursion)
    IN  IF ~g.ok THEN Result(g.mtd, cache, <<>>, "None", "RecursionError")
        ELSE IF ~TruthyStr(fn.file) THEN Result(g.mtd, cache, <<>>, "None", "")
        ELSE
        LET n == names(cache, fn.file, _modname(fn.file))
        IN  IF n.ret # 0 THEN Result(g.mtd, n.cache, <<>>, "None", "")
            ELSE Result([g.mtd EXCEPT ![pid].depth = @ - 1], n.cache, <<>>,
                        "popping", "")

\* uftrace_exit lines 293-295: retval_fmt
retval_fmt(arg) ==
    IF opt_retval = 1 /\ TruthyArg(arg) THEN <<" = ", arg[1], ";">> ELSE <<>>

\* uftrace_exit lines 283-298 with the indentation taken before the decrement
exit_283_298_Deep(m, cache, pid, fn, arg, now, id) ==
    LET e == m[pid]
        k == get_ret_stack(e, e.depth)
    IN  IF k = 0 THEN Result(m, cache, <<>>, "None", "IndexError")
        ELSE
        LET rstack == e.rstacks[k]
            m1 == [m EXCEPT ![pid].rstacks = DelAt(@, k)]
        IN  IF ~HasStart(rstack) THEN Result(m1, cache, <<>>, "None", "KeyError")
            ELSE Result(m1, cache,
                        <<ExitLine(pid, (e.depth + 1) * 2, fn, now - rstack.start_time,
                                   retval_fmt(arg), id)>>,
                        "None", "")

\* uftrace_exit lines 283-298 reading the timestamp with a default
exit_283_298_NoKeyError(m, cache, pid, fn, arg, now, id) ==
    LET e == m[pid]
        k == get_ret_stack(e, e.depth)
    IN  IF k = 0 THEN Result(m, cache, <<>>, "None", "IndexError")
        ELSE
        LET rstack == e.rstacks[k]
            m1 == [m EXCEPT ![pid].rstacks = DelAt(@, k)]
            start == IF HasStart(rstack) THEN rstack.start_time ELSE now
        IN  Result(m1, cache,
                   <<ExitLine(pid, e.depth * 2, fn, now - start, retval_fmt(arg), id)>>,
                   "None", "")

\* uftrace_exit lines 283-298: take the frame at the new depth, delete it,
\* print the exit line
exit_283_298(m, cache, pid, fn, arg, now, id) ==
    LET e == m[pid]
        k == get_ret_stack(e, e.depth)
    IN  IF k = 0 THEN Result(m, cache, <<>>, "None", "IndexError")
        ELSE
        LET rstack == e.rstacks[k]
            m1 == [m EXCEPT ![pid].rstacks = DelAt(@, k)]
        IN  IF ~HasStart(rstack) THEN Result(m1, cache, <<>>, "None", "KeyError")
            ELSE Result(m1, cache,
                        <<ExitLine(pid, e.depth * 2, fn, now - rstack.start_time,
                                   retval_fmt(arg), id)>>,
                        "None", "")

\* uftrace_line reading the frame at depth instead of depth - 1
uftrace_line_Top(m, cache, pid, pp, fn, now, id) ==
    IF ~TruthyStr(fn.file) THEN Result(m, cache, <<>>, "None", "")
    ELSE
    LET g == get_thread_data(m, pid, pp, MaxRecursion)
    IN  IF ~g.ok THEN Result(g.mtd, cache, <<>>, "None", "RecursionError")
        ELSE
        LET e == g.mtd[pid]
            k == get_ret_stack(e, e.depth)
        IN  IF k = 0 THEN Result(g.mtd, cache, <<>>, "None", "IndexError")
            ELSE
            LET n == names(cache, fn.file, _modname(fn.file))
                rstack == e.rstacks[k]
            IN  IF n.ret # 0 THEN Result(g.mtd, n.cache, <<>>, "None", "")
                ELSE IF ~HasStart(rstack)
                THEN Result(g.mtd, n.cache, <<>>, "None", "KeyError")
                ELSE IF IsPyc(basename(fn.file))
                THEN Result(g.mtd, n.cache, <<>>, "None", "")
                ELSE Result(g.mtd, n.cache,
                            <<LineLine(pid, e.depth * 2, fn, now - rstack.start_time, id)>>,
                            "None", "")

\* Trace.uftrace_line(frame, 'line', arg)
uftrace_line(m, cache, pid, pp, fn, now, id) ==
    IF ~TruthyStr(fn.file) THEN Result(m, cache, <<>>, "None", "")
    ELSE
    LET g == get_thread_data(m, pid, pp, MaxRecursion)
    IN  IF ~g.ok THEN Result(g.mtd, cache, <<>>, "None", "RecursionError")
        ELSE
        LET e == g.mtd[pid]
            k == get_ret_stack(e, e.depth - 1)
        IN  IF k = 0 THEN Result(g.mtd, cache, <<>>, "None", "IndexError")
            ELSE
            LET n == names(cache, fn.file, _modname(fn.file))
                rstack == e.rstacks[k]
            IN  IF n.ret # 0 THEN Result(g.mtd, n.cache, <<>>, "None", "")
                ELSE IF ~HasStart(rstack)
                THEN Result(g.mtd, n.cache, <<>>, "None", "KeyError")
                ELSE IF IsPyc(basename(fn.file))
                THEN Result(g.mtd, n.cache, <<>>, "None", "")
                ELSE Result(g.mtd, n.cache,
                            <<LineLine(pid, e.depth * 2, fn, now - rstack.start_time, id)>>,
                            "None", "")

\* uftrace_exit that pops whether or not the event is ignored
uftrace_exit_PopIgnored(m, cache, pid, pp, fn, why, arg, now, id) ==
    LET g == get_thread_data(m, pid, pp, MaxRecursion)
    IN  IF ~g.ok THEN Result(g.mtd, cache, <<>>, "None", "RecursionError")
        ELSE IF ~TruthyStr(fn.file) THEN Result(g.mtd, cache, <<>>, "None", "")
        ELSE exit_283_298([g.mtd EXCEPT ![pid].depth = @ - 1],
                          names(cache, fn.file, _modname(fn.file)).cache,
                          pid, fn, arg, now, id)

\* Trace.uftrace_exit(frame, why, arg), run without interruption
uftrace_exit(m, cache, pid, pp, fn, why, arg, now, id) ==
    IF why = "line" /\ opt_line = 1
    THEN uftrace_line(m, cache, pid, pp, fn, now, id)
    ELSE IF why # "return" THEN Result(m, cache, <<>>, "None", "")
    ELSE
    LET r == exit_270_282(m, cache, pid, pp, fn)
    IN  IF r.ret = "popping"
        THEN exit_283_298(r.mtd, r.cache, pid, fn, arg, now, id)
        ELSE r

----------------------------------------------------------------------------
(* The state machine *)

NoThread == [status |-> "none", stack |-> <<>>, pc |-> "idle"]
NewThread == [status |-> "run", stack |-> <<>>, pc |-> "idle"]
NoFn == [file |-> None, name |-> ""]

\* an open call of the traced program: its function, the time of its 'call'
\* event, whether uftrace_entry returned self.returntrace for it, and the
\* indentation its entry line was printed at (-1 when none was printed)
Call(fn, id, r) ==
    [fn |-> fn, id |-> id, traced |-> (r.ret = "returntrace"),
     indent |-> IF r.lines = <<>> THEN -1 ELSE r.lines[1].indent]

Event(kind, p, t, fn, id, r, first) ==
    [kind |-> kind, pid |-> p, tid |-> t, fn |-> fn, call |-> id,
     ret |-> r.ret, raised |-> r.raised, first |-> first,
     mod |-> <<>>, ignore_it |-> -1]

\* sys.settrace: an exception in the trace function unsets it for the thread
AfterHandler(th, r) == IF r.raised # "" THEN [th EXCEPT !.status = "raised"] ELSE th

\* CPython may switch threads inside a handler when another thread runs
Preemptible(p, t) == \E u \in Tids \ {t} : threads[p][u].status = "run"

Top(stack) == stack[Len(stack)]
Pop(stack) == SubSeq(stack, 1, Len(stack) - 1)

Ready(p, t) ==
    /\ procs[p] = "running"
    /\ threads[p][t].status = "run"
    /\ threads[p][t].pc = "idle"

Config ==
    /\ _mods = Ignore_init_mods({S_cmp})
    /\ _dirs = Ignore_init_dirs(<<S_usr_local_slash>>)

\* Trace.__init__ in the first process, then runctx installs the hook
Machine ==
    /\ procs = [p \in Pids |-> IF p = RootPid THEN "running" ELSE "unborn"]
    /\ ppid = [p \in Pids |-> InitPid]
    /\ mtd = [p \in Pids |-> IF p = RootPid THEN Trace_init_mtd(p) ELSE <<>>]
    /\ _ignore = [p \in Pids |-> IF p = RootPid THEN Ignore_init_cache ELSE <<>>]
    /\ threads = [p \in Pids |-> [t \in Tids |->
                     IF p = RootPid /\ t = MainThread THEN NewThread ELSE NoThread]]
    /\ out = <<Header>>
    /\ clock = 0
    /\ last = [kind |-> "init", pid |-> RootPid, tid |-> MainThread, fn |-> NoFn,
               call |-> 0, ret |-> "None", raised |-> "", first |-> FALSE,
               mod |-> <<>>, ignore_it |-> -1]

Init ==
    /\ Config
    /\ opt_line \in {0, 1}
    /\ opt_retval \in {0, 1}
    /\ Machine

\* a 'call' event: thread t of process p enters fn
Entry(p, t, fn, limit) ==
    /\ Ready(p, t)
    /\ clock < limit
    /\ Len(threads[p][t].stack) < MaxDepth
    /\ \E now \in {clock + 1} :
       \E r \in {IF Preemptible(p, t)
                 THEN entry_213_234(mtd[p], _ignore[p], p, ppid[p], fn, now, now)
                 ELSE uftrace_entry(mtd[p], _ignore[p], p, ppid[p], fn, now, now)} :
       LET th == threads[p][t]
           th1 == IF r.raised # "" THEN th
                  ELSE [th EXCEPT !.stack = Append(@, Call(fn, now, r)),
                                  !.pc = IF r.ret = "returntrace" /\ Preemptible(p, t)
                                         THEN "entry_235" ELSE "idle"]
       IN  /\ mtd' = [mtd EXCEPT ![p] = r.mtd]
           /\ _ignore' = [_ignore EXCEPT ![p] = r.cache]
           /\ threads' = [threads EXCEPT ![p][t] = AfterHandler(th1, r)]
           /\ out' = out \o r.lines
           /\ clock' = now
           /\ last' = Event("entry", p, t, fn, now, r, p \notin DOMAIN mtd[p])
    /\ UNCHANGED <<_mods, _dirs, opt_line, opt_retval, procs, ppid>>

\* a preempted uftrace_entry resumes at line 235
EntryStep235(p, t) ==
    /\ procs[p] = "running"
    /\ threads[p][t].pc = "entry_235"
    /\ mtd' = [mtd EXCEPT ![p] = entry_235(@, p)]
    /\ threads' = [threads EXCEPT ![p][t].pc = "entry_236"]
    /\ last' = [last EXCEPT !.kind = "step", !.pid = p, !.tid = t, !.first = FALSE]
    /\ UNCHANGED <<_mods, _dirs, opt_line, opt_retval, procs, ppid, _ignore, out, clock>>

\* a preempted uftrace_entry resumes at line 236 and returns
EntryStep236(p, t) ==
    /\ procs[p] = "running"
    /\ threads[p][t].pc = "entry_236"
    /\ mtd' = [mtd EXCEPT ![p] = entry_236(@, p)]
    /\ threads' = [threads EXCEPT ![p][t].pc = "idle"]
    /\ last' = [last EXCEPT !.kind = "step", !.pid = p, !.tid = t, !.first = FALSE]
    /\ UNCHANGED <<_mods, _dirs, opt_line, opt_retval, procs, ppid, _ignore, out, clock>>

\* a 'return' event: the innermost open call of thread t returns
Exit(p, t, limit) ==
    /\ Ready(p, t)
    /\ clock < limit
    /\ threads[p][t].stack # <<>>
    /\ \E now \in {clock + 1}, cl \in {Top(threads[p][t].stack)} :
       \E r \in {IF Preemptible(p, t)
                 THEN exit_270_282(mtd[p], _ignore[p], p, ppid[p], cl.fn)
                 ELSE uftrace_exit(mtd[p], _ignore[p], p, ppid[p], cl.fn, "return",
                                   RetOf(cl.fn, p), now, cl.id)} :
       LET th == threads[p][t]
           th1 == IF r.ret = "popping" THEN [th EXCEPT !.pc = "exit_283"]
                  ELSE [th EXCEPT !.stack = Pop(@)]
       IN  /\ mtd' = [mtd EXCEPT ![p] = r.mtd]
           /\ _ignore' = [_ignore EXCEPT ![p] = r.cache]
           /\ threads' = [threads EXCEPT ![p][t] = AfterHandler(th1, r)]
           /\ out' = out \o r.lines
           /\ clock' = now
           /\ last' = Event("exit", p, t, cl.fn, cl.id, r, p \notin DOMAIN mtd[p])
    /\ UNCHANGED <<_mods, _dirs, opt_line, opt_retval, procs, ppid>>

\* a preempted uftrace_exit resumes at line 283 and returns
ExitStep283(p, t) ==
    /\ procs[p] = "running"
    /\ threads[p][t].pc = "exit_283"
    /\ \E cl \in {Top(threads[p][t].stack)} :
       \E r \in {exit_283_298(mtd[p], _ignore[p], p, cl.fn, RetOf(cl.fn, p), clock,
                              cl.id)} :
       LET th == [threads[p][t] EXCEPT !.stack = Pop(@), !.pc = "idle"]
       IN  /\ mtd' = [mtd EXCEPT ![p] = r.mtd]
           /\ threads' = [threads EXCEPT ![p][t] = AfterHandler(th, r)]
           /\ out' = out \o r.lines
           /\ last' = Event("exit", p, t, cl.fn, cl.id, r, FALSE)
    /\ UNCHANGED <<_mods, _dirs, opt_line, opt_retval, procs, ppid, _ignore, clock>>

\* a 'line' event in the innermost open call of thread t
Line(p, t, limit) ==
    /\ Ready(p, t)
    /\ clock < limit
    /\ opt_line = 1
    /\ threads[p][t].stack # <<>>
    /\ \E now \in {clock + 1}, cl \in {Top(threads[p][t].stack)} :
       \E r \in {uftrace_exit(mtd[p], _ignore[p], p, ppid[p], cl.fn, "line",
                              PyNone, now, cl.id)} :
           /\ mtd' = [mtd EXCEPT ![p] = r.mtd]
           /\ _ignore' = [_ignore EXCEPT ![p] = r.cache]
           /\ threads' = [threads EXCEPT ![p][t] = AfterHandler(@, r)]
           /\ out' = out \o r.lines
           /\ clock' = now
           /\ last' = Event("line", p, t, cl.fn, cl.id, r, p \notin DOMAIN mtd[p])
    /\ UNCHANGED <<_mods, _dirs, opt_line, opt_retval, procs, ppid>>

\* runctx's finally: the program has returned, _unsettrace() is called with
\* the hook still installed, and uninstalls it
Unsettrace(p, limit) ==
    /\ Ready(p, MainThread)
    /\ clock < limit
    /\ threads[p][MainThread].stack = <<>>
    /\ \E now \in {clock + 1} :
       \E r \in {uftrace_entry(mtd[p], _ignore[p], p, ppid[p], Fn_unsettrace, now,
                               now)} :
           /\ mtd' = [mtd EXCEPT ![p] = r.mtd]
           /\ _ignore' = [_ignore EXCEPT ![p] = r.cache]
           /\ threads' = [threads EXCEPT ![p][MainThread].status =
                              IF r.raised # "" THEN "raised" ELSE "done"]
           /\ out' = out \o r.lines
           /\ clock' = now
           /\ last' = Event("unsettrace", p, MainThread, Fn_unsettrace, now, r,
                            p \notin DOMAIN mtd[p])
    /\ UNCHANGED <<_mods, _dirs, opt_line, opt_retval, procs, ppid>>

\* threading.settrace: a thread started while the hook is installed has it too
StartThread(p, t) ==
    /\ Ready(p, MainThread)
    /\ threads[p][t].status = "none"
    /\ threads' = [threads EXCEPT ![p][t] = NewThread]
    /\ last' = [last EXCEPT !.kind = "thread", !.pid = p, !.tid = t, !.first = FALSE]
    /\ UNCHANGED <<_mods, _dirs, opt_line, opt_retval, procs, ppid, mtd, _ignore,
                   out, clock>>

\* os.fork() in the main thread of p: the child q gets a copy of p's memory
\* and of the forking thread
Fork(p, q) ==
    /\ Ready(p, MainThread)
    /\ procs[q] = "unborn"
    /\ \A o \in Pids : o < q => procs[o] # "unborn"
    /\ procs' = [procs EXCEPT ![q] = "running"]
    /\ ppid' = [ppid EXCEPT ![q] = p]
    /\ mtd' = [mtd EXCEPT ![q] = mtd[p]]
    /\ _ignore' = [_ignore EXCEPT ![q] = _ignore[p]]
    /\ threads' = [threads EXCEPT ![q] = [t \in Tids |->
                       IF t = MainThread THEN threads[p][MainThread] ELSE NoThread]]
    /\ last' = [last EXCEPT !.kind = "fork", !.pid = q, !.tid = MainThread,
                            !.first = FALSE]
    /\ UNCHANGED <<_mods, _dirs, opt_line, opt_retval, out, clock>>

\* process p ends while a child still runs: the child is re-parented
ProcExit(p) ==
    /\ procs[p] = "running"
    /\ \A t \in Tids : threads[p][t].pc = "idle"
    /\ \E q \in Pids : procs[q] = "running" /\ ppid[q] = p
    /\ procs' = [procs EXCEPT ![p] = "exited"]
    /\ ppid' = [q \in Pids |-> IF ppid[q] = p THEN InitPid ELSE ppid[q]]
    /\ last' = [last EXCEPT !.kind = "procexit", !.pid = p, !.tid = MainThread,
                            !.first = FALSE]
    /\ UNCHANGED <<_mods, _dirs, opt_line, opt_retval, mtd, _ignore, threads, out, clock>>

\* processes that fork, each with its main thread only
NextFork ==
    \/ \E p \in Pids, fn \in Functions : Entry(p, MainThread, fn, MaxForkClock)
    \/ \E p \in Pids : Exit(p, MainThread, MaxForkClock)
    \/ \E p \in Pids : Line(p, MainThread, MaxForkClock)
    \/ \E p \in Pids : Unsettrace(p, MaxForkClock)
    \/ \E p \in Pids, q \in Pids : Fork(p, q)
    \/ \E p \in Pids : ProcExit(p)

SpecFork == Init /\ [][NextFork]_vars

\* the threads of the first process
NextThreads ==
    \/ \E t \in Tids, fn \in Functions : Entry(RootPid, t, fn, MaxThreadClock)
    \/ \E t \in Tids : EntryStep235(RootPid, t)
    \/ \E t \in Tids : EntryStep236(RootPid, t)
    \/ \E t \in Tids : Exit(RootPid, t, MaxThreadClock)
    \/ \E t \in Tids : ExitStep283(RootPid, t)
    \/ \E t \in Tids : Line(RootPid, t, MaxThreadClock)
    \/ Unsettrace(RootPid, MaxThreadClock)
    \/ \E t \in Tids : StartThread(RootPid, t)

SpecThreads == Init /\ [][NextThreads]_vars

\* one thread of one process: the events of one execution context
NextSeq ==
    \/ \E fn \in Functions : Entry(RootPid, MainThread, fn, MaxSeqClock)
    \/ Exit(RootPid, MainThread, MaxSeqClock)
    \/ Line(RootPid, MainThread, MaxSeqClock)
    \/ Unsettrace(RootPid, MaxSeqClock)

SpecSeq == Init /\ [][NextSeq]_vars

\* a 'return' event with no open call in the thread: an entry/exit mismatch
StrayExit(p, t, fn, limit) ==
    /\ Ready(p, t)
    /\ clock < limit
    /\ threads[p][t].stack = <<>>
    /\ \E now \in {clock + 1} :
       \E r \in {uftrace_exit(mtd[p], _ignore[p], p, ppid[p], fn, "return",
                              RetOf(fn, p), now, 0)} :
           /\ mtd' = [mtd EXCEPT ![p] = r.mtd]
           /\ _ignore' = [_ignore EXCEPT ![p] = r.cache]
           /\ threads' = [threads EXCEPT ![p][t] = AfterHandler(@, r)]
           /\ out' = out \o r.lines
           /\ clock' = now
           /\ last' = Event("stray", p, t, fn, 0, r, p \notin DOMAIN mtd[p])
    /\ UNCHANGED <<_mods, _dirs, opt_line, opt_retval, procs, ppid>>

NextMismatch ==
    \/ \E fn \in Functions : Entry(RootPid, MainThread, fn, MaxSeqClock)
    \/ Exit(RootPid, MainThread, MaxSeqClock)
    \/ Line(RootPid, MainThread, MaxSeqClock)
    \/ Unsettrace(RootPid, MaxSeqClock)
    \/ \E fn \in Functions : StrayExit(RootPid, MainThread, fn, MaxSeqClock)

SpecMismatch == Init /\ [][NextMismatch]_vars

----------------------------------------------------------------------------
(* _Ignore on its own: any configuration, any sequence of queries *)

ModuleLists == { {}, {S_cmp} }
DirLists == { <<>>, <<S_usr_local>>, <<S_usr_local_slash>>, <<S_usr_dot_local>> }
QueryFiles == { None, S_usr_local_py, S_usr_local_local_py, S_cmpcache_py,
                S_usr_local_cmpcache_py, S_cmp_py }
QueryMods == { S_local, S_cmpcache, S_cmp, S_cmp_util, S_string }

InitIgnore ==
    /\ _mods \in { Ignore_init_mods(ms) : ms \in ModuleLists }
    /\ _dirs \in { Ignore_init_dirs(ds) : ds \in DirLists }
    /\ opt_line = 0
    /\ opt_retval = 0
    /\ Machine

\* self.ignore.names(filename, modulename) on the instance of the first process
Query(filename, modulename) ==
    /\ \E r \in {names(_ignore[RootPid], filename, modulename)} :
           /\ _ignore' = [_ignore EXCEPT ![RootPid] = r.cache]
           /\ last' = [kind |-> "names", pid |-> RootPid, tid |-> MainThread,
                       fn |-> [file |-> filename, name |-> ""], call |-> 0,
                       ret |-> "None", raised |-> "",
                       first |-> (modulename \notin DOMAIN _ignore[RootPid]),
                       mod |-> modulename, ignore_it |-> r.ret]
    /\ UNCHANGED <<_mods, _dirs, opt_line, opt_retval, procs, ppid, mtd, threads,
                   out, clock>>

NextIgnore == \E filename \in QueryFiles, modulename \in QueryMods :
                  Query(filename, modulename)

SpecIgnore == InitIgnore /\ [][NextIgnore]_vars

----------------------------------------------------------------------------
(* get_time_and_unit on its own: durations around every bucket boundary *)

UsFrom == 100
MsFrom == 1000000
SecFrom == 1000000000

\* get_time_and_unit with the first boundary taken inclusively
get_time_and_unit_Inclusive(duration) ==
    IF duration <= UsFrom THEN [divider |-> 1, time_unit |-> "ns"]
    ELSE IF duration < MsFrom THEN [divider |-> 1000, time_unit |-> "us"]
    ELSE IF duration < SecFrom THEN [divider |-> 1000000, time_unit |-> "ms"]
    ELSE [divider |-> 1000000000, time_unit |-> " s"]

\* get_time_and_unit(duration): the divider chosen and the unit; the value
\* returned is duration / divider
get_time_and_unit(duration) ==
    IF duration < UsFrom THEN [divider |-> 1, time_unit |-> "ns"]
    ELSE IF duration < MsFrom THEN [divider |-> 1000, time_unit |-> "us"]
    ELSE IF duration < SecFrom THEN [divider |-> 1000000, time_unit |-> "ms"]
    ELSE [divider |-> 1000000000, time_unit |-> " s"]

\* uftrace_exit line 290: the nanoseconds between an entry and its exit
Durations ==
    (0..MaxSlack)
    \cup ((UsFrom - MaxSlack)..(UsFrom + MaxSlack))
    \cup ((MsFrom - MaxSlack)..(MsFrom + MaxSlack))
    \cup ((SecFrom - MaxSlack)..(SecFrom + MaxSlack))

InitTime ==
    /\ Config
    /\ opt_line = 0
    /\ opt_retval = 0
    /\ Machine

\* uftrace_exit line 291: (time_val, time_unit) = get_time_and_unit(duration)
Measure(duration) ==
    /\ \E r \in {get_time_and_unit(duration)} :
           last' = [kind |-> "time", pid |-> RootPid, tid |-> MainThread,
                    duration |-> duration, divider |-> r.divider,
                    time_unit |-> r.time_unit]
    /\ UNCHANGED <<_mods, _dirs, opt_line, opt_retval, procs, ppid, mtd, _ignore,
                   threads, out, clock>>

NextTime == \E duration \in Durations : Measure(duration)

SpecTime == InitTime /\ [][NextTime]_vars

----------------------------------------------------------------------------
(* Properties *)

Root == mtd[RootPid][RootPid]
RootStack == threads[RootPid][MainThread].stack

\* the depth and stack the engine uses for process p: mtd[p][p], inherited on
\* first observation
Ctx(p) ==
    LET g == get_thread_data(mtd[p], p, ppid[p], MaxRecursion)
    IN  IF g.ok THEN g.mtd[p] ELSE EmptyEntry

\* the ignore filter suppresses fn in process p / lets fn be traced
IgnoredFn(p, fn) ==
    TruthyStr(fn.file) /\ names(_ignore[p], fn.file, _modname(fn.file)).ret # 0
TracedFn(p, fn) ==
    TruthyStr(fn.file) /\ names(_ignore[p], fn.file, _modname(fn.file)).ret = 0

\* the open calls of a thread for which an entry line was printed
TracedOpen(stack) == Cardinality({i \in 1..Len(stack) : stack[i].traced})

EntryIdx == {i \in 1..Len(out) : out[i].kind = "entry"}
ExitIdx == {i \in 1..Len(out) : out[i].kind = "exit"}

HandlerKinds == {"entry", "exit", "line", "unsettrace"}

\* C1: depth conservation.  In one execution context, whenever every call
\* entered so far (traced or ignored) has returned, no handler has raised,
\* the depth is 0 and rstacks holds exactly one element.
C1_DepthConservation ==
    RootStack = <<>> =>
        /\ threads[RootPid][MainThread].status \in {"run", "done"}
        /\ Root.depth = 0
        /\ Len(Root.rstacks) = 1

\* two nested traced calls and an ignored one have been entered and left
C1_Witness ==
    /\ RootStack = <<>>
    /\ clock >= 6
    /\ \E j \in ExitIdx : out[j].indent = 2
    /\ Len(out) = 5

\* C2: ignore symmetry.  An ignored entry and its matching exit change
\* neither the context's depth nor its stack nor the output, and no line is
\* printed for the body of the ignored call: nothing is emitted between that
\* entry and its exit.
C2_IgnoreSymmetry ==
    [][ /\ (last'.kind \in {"entry", "exit"} /\ IgnoredFn(RootPid, last'.fn))
            => (Ctx(RootPid)' = Ctx(RootPid) /\ out' = out)
        /\ (\E i \in 1..Len(RootStack) : IgnoredFn(RootPid, RootStack[i].fn))
            => out' = out ]_vars

\* C5: nested output ordering.  Every exit line follows the entry line of its
\* call and has its indentation; a call entered while another is open exits
\* first, at a deeper indentation than the enclosing call's exit.
C5_NestedOrdering ==
    /\ \A j \in ExitIdx : \E i \in EntryIdx :
           /\ i < j
           /\ out[i].call = out[j].call
           /\ out[i].name = out[j].name
           /\ out[i].indent = out[j].indent
    /\ \A i1 \in EntryIdx, i2 \in EntryIdx, j1 \in ExitIdx :
           (i1 < i2 /\ i2 < j1 /\ out[j1].call = out[i1].call)
           => \E j2 \in ExitIdx :
                  /\ i2 < j2 /\ j2 < j1
                  /\ out[j2].call = out[i2].call
                  /\ out[j2].indent > out[j1].indent

\* three nested calls have returned: exit lines at 4, 2 and 0 spaces
C5_Witness ==
    \E j \in ExitIdx :
        /\ j + 2 <= Len(out)
        /\ out[j].indent = 4
        /\ out[j + 1].kind = "exit" /\ out[j + 1].indent = 2
        /\ out[j + 2].kind = "exit" /\ out[j + 2].indent = 0

\* C6 as claimed: with opt_retval every exit line of a call that returns a
\* value shows ' = <value>;', without opt_retval no exit line shows one.
C6_RetvalDisplay ==
    \A j \in ExitIdx :
        LET arg == RetOf([name |-> out[j].name], out[j].pid)
        IN  IF opt_retval = 1
            THEN arg # PyNone => out[j].retval_fmt = <<" = ", arg[1], ";">>
            ELSE out[j].retval_fmt = <<>>

\* C7: an exit event that is not ignored, handled at depth 0, raises, stops
\* the thread's tracing and prints nothing.
C7_MismatchFailsLoudly ==
    [][ (/\ last'.kind = "stray"
         /\ TracedFn(RootPid, last'.fn)
         /\ Ctx(RootPid).depth = 0)
        => (/\ last'.raised # ""
            /\ threads'[RootPid][MainThread].status = "raised"
            /\ out' = out) ]_vars

\* after well-nested events, an unmatched exit has raised KeyError
C7_Witness ==
    /\ last.kind = "stray"
    /\ last.raised = "KeyError"
    /\ clock >= 3
    /\ Len(out) >= 3

\* C3: context inheritance.  When a handler calls get_thread_data for the
\* first time in a process whose parent's entry holds depth d and a
\* (d+1)-element stack, the process gets an entry of its own that starts from
\* depth d and a copy of the parent's frames (the handler's own push or pop
\* applied on top); no event of a process changes any other entry of its registry or
\* the registry of another process; and an exit line is printed at the
\* indentation of the call's entry line, also when the entry was printed by
\* the parent before the fork.
C3_ContextInheritance ==
    [][ \A p \in Pids :
          (last' # last /\ last'.pid = p /\ last'.kind \in HandlerKinds) =>
            LET pp == ppid[p]
                delta == TracedOpen(threads'[p][MainThread].stack)
                         - TracedOpen(threads[p][MainThread].stack)
            IN  /\ \A q \in DOMAIN mtd[p] \ {p} :
                       q \in DOMAIN mtd'[p] /\ mtd'[p][q] = mtd[p][q]
                /\ \A o \in Pids \ {p} : mtd'[o] = mtd[o]
                /\ (/\ p \notin DOMAIN mtd[p]
                    /\ p \in DOMAIN mtd'[p]
                    /\ pp \in DOMAIN mtd[p]
                    /\ Complete(mtd[p][pp])
                    /\ Len(mtd[p][pp].rstacks) = mtd[p][pp].depth + 1)
                   => (/\ last'.raised = ""
                       /\ Complete(mtd'[p][p])
                       /\ mtd'[p][p].depth = mtd[p][pp].depth + delta
                       /\ Len(mtd'[p][p].rstacks) = mtd'[p][p].depth + 1
                       /\ \A i \in 1..Len(mtd'[p][p].rstacks) :
                              i <= mtd[p][pp].depth /\ i <= mtd'[p][p].depth
                              => mtd'[p][p].rstacks[i] = mtd[p][pp].rstacks[i])
                /\ (last'.kind = "exit" /\ Len(out') = Len(out) + 1)
                   => (/\ out'[Len(out')].kind = "exit"
                       /\ out'[Len(out')].pid = p
                       /\ \E i \in EntryIdx :
                              /\ out[i].call = out'[Len(out')].call
                              /\ out[i].indent = out'[Len(out')].indent) ]_vars

\* the child's first event is the exit of a call the parent opened before the
\* fork: the child's depth went down, the parent's copies did not
C3_Witness ==
    /\ last.kind = "exit"
    /\ last.pid = RootPid + 1
    /\ last.first
    /\ out[Len(out)].kind = "exit"
    /\ out[Len(out)].pid = RootPid + 1
    /\ \E i \in EntryIdx : out[i].call = out[Len(out)].call /\ out[i].pid = RootPid
    /\ RootPid + 1 \in DOMAIN mtd[RootPid + 1]
    /\ Complete(mtd[RootPid + 1][RootPid + 1])
    /\ mtd[RootPid + 1][RootPid + 1].depth = mtd[RootPid + 1][RootPid].depth - 1
    /\ Root.depth >= 1

\* C4: cross-context isolation.  Between events, the depth a running context
\* works with equals the number of its own open traced calls, whatever the
\* other contexts (threads of the process, parent or child process) did.
C4_CrossContextIsolation ==
    \A p \in Pids : \A t \in Tids :
        (/\ procs[p] = "running"
         /\ threads[p][t].status = "run"
         /\ \A u \in Tids : threads[p][u].pc = "idle"
         /\ \A u \in Tids : threads[p][u].status # "raised"
         /\ Complete(Ctx(p)))
        => Ctx(p).depth = TracedOpen(threads[p][t].stack)

AllIdle(p) == \A u \in Tids : threads[p][u].pc = "idle"

\* between two events: no handler of the process is in progress
C8_Shape ==
    \A p \in Pids : AllIdle(p) =>
        \A q \in DOMAIN mtd[p] :
            /\ Complete(mtd[p][q])
            /\ mtd[p][q].depth >= 0
            /\ Len(mtd[p][q].rstacks) = mtd[p][q].depth + 1

\* what one step of the handler run by thread last'.tid does to the depth
C8_Delta ==
    LET p == last'.pid
        t == last'.tid
        pre == threads[p][t].pc
        post == threads'[p][t].pc
        d == mtd'[p][p].depth - mtd[p][p].depth
    IN  (p \in DOMAIN mtd[p] /\ Complete(mtd[p][p])) =>
        CASE pre = "entry_235" -> d = 1
          [] pre \in {"entry_236", "exit_283"} -> d = 0
          [] pre = "idle" /\ clock' = clock -> d = 0
          [] pre = "idle" /\ clock' # clock /\ last'.kind = "entry" ->
                d = IF post = "idle" /\ last'.ret = "returntrace" THEN 1 ELSE 0
          [] pre = "idle" /\ clock' # clock /\ last'.kind = "exit" ->
                d = IF TracedFn(p, last'.fn) THEN -1 ELSE 0
          [] OTHER -> d = 0

Suppressed(filename, modulename) ==
    \/ modulename \in _mods
    \/ \E mod \in _mods : StartsWith(modulename, mod \o ExtSep)
    \/ \E i \in 1..Len(_dirs) : StartsWith(filename, _dirs[i] \o OsSep)

\* C9 as claimed: after any sequence of earlier decisions, a module queried
\* with a file path is suppressed only for an exact ignored name, a name
\* starting with ignoredName + ".", or a path starting with ignoredDir + sep;
\* so "cmp" does not suppress "cmpcache" and /usr/local does not suppress
\* /usr/local.py.
C9_PrefixBoundary_Original ==
    (last.kind = "names" /\ last.fn.file # None /\ last.mod # S_string)
    => (last.ignore_it # 0 <=> Suppressed(last.fn.file, last.mod))

\* C9 amended: the same, for the first query of a module name on the
\* instance; later queries of that name get the cached decision.
C9_PrefixBoundary ==
    (last.kind = "names" /\ last.first /\ last.fn.file # None)
    => (last.ignore_it # 0 <=> Suppressed(last.fn.file, last.mod))

\* with /usr/local ignored and other decisions cached, /usr/local.py is
\* queried for the first time with module "local" and is not suppressed
C9_Witness ==
    /\ last.kind = "names"
    /\ last.first
    /\ last.fn.file = S_usr_local_py
    /\ last.mod = S_local
    /\ last.ignore_it = 0
    /\ _dirs = <<S_usr_local>>
    /\ S_cmp \in _mods
    /\ S_cmpcache \in DOMAIN _ignore[RootPid]
    /\ _ignore[RootPid][S_cmpcache] = 0
    /\ S_cmp_util \in DOMAIN _ignore[RootPid]

\* C10: idempotent memoization.  A query for a module name that has a cached
\* decision returns it whatever the path, every query leaves its decision in
\* the cache, and no cached decision is ever overwritten or dropped.
C10_IdempotentMemo ==
    [][ last'.kind = "names" =>
          /\ \A k \in DOMAIN _ignore[RootPid] :
                 /\ k \in DOMAIN _ignore'[RootPid]
                 /\ _ignore'[RootPid][k] = _ignore[RootPid][k]
          /\ last'.mod \in DOMAIN _ignore[RootPid]
                 => last'.ignore_it = _ignore[RootPid][last'.mod]
          /\ last'.mod \in DOMAIN _ignore'[RootPid]
          /\ _ignore'[RootPid][last'.mod] = last'.ignore_it ]_vars

\* a module first seen with a traceable path is queried again with no path:
\* the cached 0 is returned although a first query with None gives 1
C10_Witness ==
    /\ last.kind = "names"
    /\ ~last.first
    /\ last.fn.file = None
    /\ last.mod \notin _mods
    /\ last.ignore_it = 0

\* C11: duration bucket boundaries.  get_time_and_unit selects "ns" with
\* divider 1 below 100, "us" with divider 1,000 from 100 up to 999,999, "ms"
\* with divider 1,000,000 from 1,000,000 up to 999,999,999, and " s" with
\* divider 1,000,000,000 from 1,000,000,000 on.
C11_BucketBoundaries ==
    last.kind = "time" =>
        /\ last.time_unit = "ns" <=> last.duration <= 99
        /\ last.time_unit = "us" <=> (100 <= last.duration /\ last.duration <= 999999)
        /\ last.time_unit = "ms" <=> (1000000 <= last.duration
                                      /\ last.duration <= 999999999)
        /\ last.time_unit = " s" <=> 1000000000 <= last.duration
        /\ last.divider = CASE last.time_unit = "ns" -> 1
                            [] last.time_unit = "us" -> 1000
                            [] last.time_unit = "ms" -> 1000000
                            [] OTHER -> 1000000000

\* the first value of the "us" bucket has been measured
C11_Witness ==
    /\ last.kind = "time"
    /\ last.duration = 100
    /\ last.time_unit = "us"
    /\ last.divider = 1000

\* C12: unknown file is a silent no-op.  An entry or exit event whose file
\* path is absent prints nothing, raises nothing and leaves the registry of
\* every process as it was.
C12_UnknownFileNoOp ==
    [][ (last'.kind \in {"entry", "exit"} /\ ~TruthyStr(last'.fn.file))
        => (/\ out' = out
            /\ last'.raised = ""
            /\ mtd' = mtd) ]_vars

\* C13: header first.  The header line is printed exactly once, by the
\* constructor, and precedes every entry, line and exit record, those of
\* forked children included.
C13_HeaderFirst ==
    /\ Len(out) >= 1
    /\ out[1] = Header
    /\ \A i \in 2..Len(out) : out[i].kind \in {"entry", "line", "exit"}

\* a parent's entry record and a forked child's line and exit records follow
\* the header
C13_Witness ==
    /\ Len(out) = 4
    /\ out[1].kind = "header"
    /\ out[2].kind = "entry" /\ out[2].pid = RootPid
    /\ out[3].kind = "line" /\ out[3].pid = RootPid + 1
    /\ out[4].kind = "exit" /\ out[4].pid = RootPid + 1

\* C14: exit pairs with its own entry timestamp.  A traced exit in a context
\* that get_thread_data can provide raises nothing, removes from the stack
\* the frame that holds the start_time written by the entry of the same call
\* (also when that entry ran in the parent before a fork), leaves the other
\* frames in place, and prints the time elapsed since that entry.
C14_ExitPairsWithEntry ==
    [][ LET p == last'.pid
            e == Ctx(p)
        IN  (last'.kind = "exit" /\ TracedFn(p, last'.fn) /\ Complete(e))
            => /\ last'.raised = ""
               /\ e.depth >= 1
               /\ HasStart(e.rstacks[e.depth])
               /\ e.rstacks[e.depth].start_time = last'.call
               /\ mtd'[p][p].rstacks = DelAt(e.rstacks, e.depth)
               /\ Len(out') = Len(out) + 1
               /\ out'[Len(out')].kind = "exit"
               /\ out'[Len(out')].call = last'.call
               /\ out'[Len(out')].time = clock' - last'.call ]_vars

\* a forked child has left the inner of two calls its parent had entered:
\* the duration runs from the inner entry, the outer frame is still there
C14_Witness ==
    /\ last.kind = "exit"
    /\ last.pid = RootPid + 1
    /\ last.call = 2
    /\ out[Len(out)].kind = "exit"
    /\ out[Len(out)].time = clock - 2
    /\ \E i \in EntryIdx : out[i].call = 2 /\ out[i].pid = RootPid
    /\ RootPid + 1 \in DOMAIN mtd[RootPid + 1]
    /\ Complete(mtd[RootPid + 1][RootPid + 1])
    /\ mtd[RootPid + 1][RootPid + 1].rstacks = <<[start_time |-> 1], EmptyFrame>>

\* C15: line events are read-only.  With line tracing on, a line event for
\* a call whose entry was traced, in a context that get_thread_data can
\* provide, raises nothing and changes no depth and no stack; the frame it
\* reads, rstacks[depth - 1], exists and holds the start_time written by the
\* entry of that call, the innermost open traced call; the line record shows
\* the time elapsed since that entry.
C15_LineReadOnly ==
    [][ \A p \in Pids : \A t \in Tids :
        LET e == Ctx(p)
            stack == threads[p][t].stack
        IN  (/\ last'.kind = "line"
             /\ last'.pid = p
             /\ last'.tid = t
             /\ Complete(e)
             /\ stack # <<>>
             /\ Top(stack).traced)
            => /\ last'.raised = ""
               /\ Ctx(p)' = e
               /\ \A q \in DOMAIN mtd[p] :
                      q \in DOMAIN mtd'[p] /\ mtd'[p][q] = mtd[p][q]
               /\ \A o \in Pids \ {p} : mtd'[o] = mtd[o]
               /\ threads'[p][t].stack = stack
               /\ e.depth >= 1
               /\ e.depth = TracedOpen(stack)
               /\ HasStart(e.rstacks[e.depth])
               /\ e.rstacks[e.depth].start_time = Top(stack).id
               /\ Len(out') = Len(out) + 1
               /\ out'[Len(out')].kind = "line"
               /\ out'[Len(out')].call = Top(stack).id
               /\ out'[Len(out')].time = clock' - Top(stack).id ]_vars

\* the first event of a forked child is a line event of a call its parent
\* entered inside another traced call
C15_Witness ==
    /\ last.kind = "line"
    /\ last.pid = RootPid + 1
    /\ last.first
    /\ last.call = 2
    /\ out[Len(out)].kind = "line"
    /\ out[Len(out)].pid = RootPid + 1
    /\ out[Len(out)].time = clock - 2
    /\ RootPid + 1 \in DOMAIN mtd[RootPid + 1]
    /\ Complete(mtd[RootPid + 1][RootPid + 1])
    /\ mtd[RootPid + 1][RootPid + 1].depth = 2

\* C16: the ignore decision.  A query for '<string>', or the first query
\* for any other module name, returns 1 exactly when the name is '<string>',
\* or is an ignored module name, or starts with an ignored name followed by
\* '.', or the file path is None, or the path starts with an ignored
\* directory followed by the separator; otherwise it returns 0.
C16_DecisionAlgorithm ==
    (last.kind = "names" /\ (last.first \/ last.mod = S_string))
    => /\ last.ignore_it \in {0, 1}
       /\ last.ignore_it = 1 <=>
              \/ last.mod = S_string
              \/ last.mod \in _mods
              \/ \E mod \in _mods : StartsWith(last.mod, mod \o <<".">>)
              \/ last.fn.file = None
              \/ \E i \in 1..Len(_dirs) : StartsWith(last.fn.file, _dirs[i] \o <<"/">>)

\* "cmpcache" is first queried with a path under the ignored /usr/local: the
\* ignored module "cmp" does not match, the directory does
C16_Witness ==
    /\ last.kind = "names"
    /\ last.first
    /\ last.mod = S_cmpcache
    /\ last.fn.file = S_usr_local_cmpcache_py
    /\ last.ignore_it = 1
    /\ _mods = {S_cmp}
    /\ _dirs = <<S_usr_local>>
    /\ S_cmp_util \in DOMAIN _ignore[RootPid]
    /\ _ignore[RootPid][S_cmp_util] = 1

\* C17: registry lookup always terminates.  In every running process,
\* get_thread_data(os.getpid()) returns, and the entry it returns holds both
\* depth and rstacks.
C17_LookupTerminates ==
    \A p \in Pids : procs[p] = "running" =>
        LET g == get_thread_data(mtd[p], p, ppid[p], MaxRecursion)
        IN  g.ok /\ Complete(g.mtd[p])

\* the open calls of a thread whose entry was traced, outermost first
TracedCalls(stack) == SelectSeq(stack, LAMBDA cl : cl.traced)

\* C18: the top-of-stack sentinel is always empty.  Between any two events of
\* one thread of one process, the frame at index depth of rstacks carries no
\* start_time, and the frame at each index below depth carries the start_time
\* of one open traced call: the i-th frame that of the i-th open traced call.
C18_SentinelEmpty ==
    /\ Complete(Root)
    /\ Root.depth = Len(TracedCalls(RootStack))
    /\ Len(Root.rstacks) = Root.depth + 1
    /\ ~HasStart(Root.rstacks[Root.depth + 1])
    /\ \A i \in 1..Root.depth :
           /\ HasStart(Root.rstacks[i])
           /\ Root.rstacks[i].start_time = TracedCalls(RootStack)[i].id

\* two traced calls are open with an ignored call between them
C18_Witness ==
    /\ Len(RootStack) = 3
    /\ RootStack[1].traced /\ ~RootStack[2].traced /\ RootStack[3].traced
    /\ IgnoredFn(RootPid, RootStack[2].fn)
    /\ Root.depth = 2
    /\ Root.rstacks = <<[start_time |-> RootStack[1].id],
                        [start_time |-> RootStack[3].id], EmptyFrame>>
    /\ last.kind = "entry"

====
